---- MODULE Spec2Model ----
(***************************************************************************)
(* Model of enterprise-doc-qa: the DocumentChunker                          *)
(* (src/src/components/chunking.py) and the RAGPipeline                     *)
(* (src/src/components/retrieval.py).                                       *)
(*                                                                          *)
(* A Python str is a sequence of one-character strings (chunker) or of     *)
(* string tokens (pipeline); a dict is a function from its keys.           *)
(***************************************************************************)
EXTENDS Integers, Sequences, FiniteSets, TLC

VARIABLES
    arg_chunk_size,     \* chunk_size argument of the last DocumentChunker(...) call
    arg_chunk_overlap,  \* chunk_overlap argument of that call
    chunk_size,         \* self.chunk_size
    chunk_overlap,      \* self.chunk_overlap
    phase,              \* "constructed" | "chunked" | "stats" | "batched": the caller's position
    text,               \* text argument of the last chunk_text call
    metadata,           \* metadata argument of the last chunk_text call
    chunks,             \* list returned by the last chunk_text call
    documents,          \* documents argument of the last chunk_documents call
    heap,               \* the caller's metadata dicts, by reference
    all_chunks,         \* list returned by the last chunk_documents call
    stats,              \* dict returned by the last get_chunk_stats call
    pc,                 \* per query call: "idle" | "retrieving" | "generating" | "done"
    question,           \* per query call: the question argument
    search_status,      \* per query call: "none" | "pending" | "returned" | "raised"
    gen_status,         \* per query call: "none" | "pending" | "returned" | "raised"
    searches,           \* per query call: number of vector_store.search invocations
    generations,        \* per query call: number of client.messages.create invocations
    retrieved,          \* per query call: the list vector_store.search returned
    source_docs,        \* per query call: first component of retrieve_context's result
    prompt_context,     \* per query call: the context handed to generate_answer
    generated,          \* per query call: the text the generation collaborator returned
    cause,              \* per query call: str(e) of the exception a collaborator raised
    response,           \* per query call: the dict query returned
    pipeline,           \* the attributes of the RAGPipeline instance the calls share
    search_text,        \* per query call: the query string vector_store.search received
    collection,         \* the Chroma collection of the VectorStore: id -> record
    adds                \* the add_documents calls made since the collection was created

chunker_vars == <<arg_chunk_size, arg_chunk_overlap, chunk_size, chunk_overlap,
                  phase, text, metadata, chunks, documents, heap, all_chunks, stats>>
rag_vars == <<pc, question, search_status, gen_status, searches, generations,
              retrieved, source_docs, prompt_context, generated, cause, response,
              pipeline, search_text>>
store_vars == <<collection, adds>>
vars == <<chunker_vars, rag_vars, store_vars>>

----------------------------------------------------------------------------
(* Bounds of the model *)

MaxLen == 4          \* longest text handed to chunk_text
MaxChunkSize == 3    \* largest explicit chunk_size argument
MaxOverlap == 1      \* largest explicit chunk_overlap argument
top_k == 2           \* self.top_k: the most results one search returns
NumCalls == 2        \* query calls that may be in progress at once
MaxBatch == 2        \* chunks in one add_documents call
MaxAdds == 3         \* add_documents calls between two clear_collection calls
MaxDocs == 2         \* longest list handed to chunk_documents

(* Program constants *)

DefaultChunkSize == 1000
DefaultChunkOverlap == 200

----------------------------------------------------------------------------
(* Python values *)

None == [given |-> FALSE, val |-> 0]
Some(v) == [given |-> TRUE, val |-> v]

\* Python truthiness of an Optional[int]: None and 0 are falsy
Truthy(a) == a.given /\ a.val # 0

Min(a, b) == IF a <= b THEN a ELSE b

NL == "\n"
Alphabet == {"a", ".", " ", NL}
Whitespace == {" ", NL}

RECURSIVE SeqsUpTo(_, _)
SeqsUpTo(S, n) ==
    IF n = 0 THEN {<<>>}
    ELSE LET shorter == SeqsUpTo(S, n - 1)
         IN  shorter \cup {Append(s, c) : s \in {x \in shorter : Len(x) = n - 1}, c \in S}

Texts == SeqsUpTo(Alphabet, MaxLen)

\* str.strip(): drop leading and trailing whitespace
RECURSIVE LStrip(_)
LStrip(s) == IF Len(s) > 0 /\ Head(s) \in Whitespace THEN LStrip(Tail(s)) ELSE s

RECURSIVE RStrip(_)
RStrip(s) ==
    IF Len(s) > 0 /\ s[Len(s)] \in Whitespace THEN RStrip(SubSeq(s, 1, Len(s) - 1)) ELSE s

Strip(s) == RStrip(LStrip(s))

\* sep occurs in s at index i
MatchAt(s, sep, i) ==
    /\ i >= 1
    /\ i + Len(sep) - 1 <= Len(s)
    /\ SubSeq(s, i, i + Len(sep) - 1) = sep

\* str.find: the lowest index at which sep occurs in s, 0 when there is none
Find(s, sep) ==
    LET hits == {i \in 1..Len(s) : MatchAt(s, sep, i)}
    IN  IF hits = {} THEN 0 ELSE CHOOSE i \in hits : \A j \in hits : i <= j

\* str.split(sep) for a non-empty sep: non-overlapping occurrences, left to right
RECURSIVE Split(_, _)
Split(s, sep) ==
    LET i == Find(s, sep)
    IN  IF i = 0 THEN <<s>>
        ELSE <<SubSeq(s, 1, i - 1)>> \o Split(SubSeq(s, i + Len(sep), Len(s)), sep)

RECURSIVE Flatten(_)
Flatten(ss) == IF ss = <<>> THEN <<>> ELSE Head(ss) \o Flatten(Tail(ss))

----------------------------------------------------------------------------
(* DocumentChunker *)

separators == << <<NL, NL>>, <<NL>>, <<".", " ">>, <<" ">>, <<>> >>

\* the suffix re-appended to a retained piece
PieceSuffix(separator, split, splits) ==
    IF Len(separator) > 0 /\ split # splits[Len(splits)] THEN separator ELSE <<>>

RECURSIVE split_by_separator(_, _, _)
split_by_separator(text_to_split, seps, size) ==
    IF Len(seps) = 0 THEN <<text_to_split>>
    ELSE LET separator == Head(seps)
             remaining_separators == Tail(seps)
             splits == IF Len(separator) > 0 THEN Split(text_to_split, separator)
                       ELSE <<text_to_split>>
             piece(split) ==
                 IF Len(split) > size
                 THEN split_by_separator(split, remaining_separators, size)
                 ELSE IF Len(split) > 0
                      THEN <<split \o PieceSuffix(separator, split, splits)>>
                      ELSE <<>>
         IN  Flatten([k \in 1..Len(splits) |-> piece(splits[k])])

\* second pass: st = [chunks, current_chunk] after the pieces seen so far
RECURSIVE MergeFrom(_, _, _)
MergeFrom(st, pieces, size) ==
    IF Len(pieces) = 0 THEN st
    ELSE LET chunk == Head(pieces)
             next == IF Len(st.current_chunk) + Len(chunk) <= size
                     THEN [chunks |-> st.chunks, current_chunk |-> st.current_chunk \o chunk]
                     ELSE [chunks |-> IF Len(st.current_chunk) > 0
                                      THEN Append(st.chunks, Strip(st.current_chunk))
                                      ELSE st.chunks,
                           current_chunk |-> chunk]
         IN  MergeFrom(next, Tail(pieces), size)

split_text(t, size) ==
    LET initial_chunks == split_by_separator(t, separators, size)
        st == MergeFrom([chunks |-> <<>>, current_chunk |-> <<>>], initial_chunks, size)
    IN  IF Len(st.current_chunk) > 0
        THEN Append(st.chunks, Strip(st.current_chunk))
        ELSE st.chunks

\* dict.update: the keys of upd win
Update(d, upd) ==
    [k \in DOMAIN d \cup DOMAIN upd |-> IF k \in DOMAIN upd THEN upd[k] ELSE d[k]]

ChunkFields(idx, n, chunk) ==
    [k \in {"chunk_index", "total_chunks", "chunk_size"} |->
        CASE k = "chunk_index" -> idx
          [] k = "total_chunks" -> n
          [] OTHER -> Len(chunk)]

\* a chunker numbering its chunks from 1: enumerate(chunks, 1)
chunk_metadata_from_one(md, idx, n, chunk) == Update(md, ChunkFields(idx + 1, n, chunk))

chunk_metadata(md, idx, n, chunk) == Update(md, ChunkFields(idx, n, chunk))

chunk_text(t, md, size) ==
    IF Len(t) = 0 \/ Len(Strip(t)) = 0 THEN <<>>
    ELSE LET cs == split_text(t, size)
         IN  [i \in 1..Len(cs) |->
                [text |-> cs[i], metadata |-> chunk_metadata(md, i - 1, Len(cs), cs[i])]]

\* metadata mappings a caller passes; the empty mapping stands for None and {}
EmptyMetadata == [k \in {} |-> 0]
NoMetadata == EmptyMetadata
Metadatas ==
    { NoMetadata,
      [k \in {"filename", "chunk_index"} |-> IF k = "filename" THEN "test.pdf" ELSE 7] }

SizeArgs == {None} \cup {Some(v) : v \in -1..MaxChunkSize}
OverlapArgs == {None} \cup {Some(v) : v \in 0..MaxOverlap}

\* __init__: `chunk_size or int(os.getenv('CHUNK_SIZE', '1000'))`, environment unset
InitChunkSize(a) == IF Truthy(a) THEN a.val ELSE DefaultChunkSize
InitChunkOverlap(a) == IF Truthy(a) THEN a.val ELSE DefaultChunkOverlap

\* the metadata dicts the caller of chunk_documents owns; a document refers to
\* one of them, or to none (ref 0: the document has no 'metadata' key)
Refs == {1, 2}
CallerHeap ==
    [r \in Refs |-> [k \in {"file"} |-> IF r = 1 THEN "doc1.pdf" ELSE "doc2.pdf"]]

\* document texts: missing or empty, whitespace-only, and two that split
DocTexts == {<<" ">>, <<"a", " ", ".">>, <<"a", ".", " ", ".">>}
DocumentLists == SeqsUpTo([text : DocTexts, md : Refs \cup {0}], MaxDocs)

\* metadata.setdefault('document_index', doc_idx): an index already there stays
doc_metadata_setdefault(md, doc_idx) ==
    IF "document_index" \in DOMAIN md THEN md
    ELSE Update(md, [k \in {"document_index"} |-> doc_idx])

\* metadata['document_index'] = doc_idx
doc_metadata(md, doc_idx) == Update(md, [k \in {"document_index"} |-> doc_idx])

\* the loop of chunk_documents from document number i (1-based) on;
\* st = [all_chunks, heap]
RECURSIVE ChunkDocumentsFrom(_, _, _, _)
ChunkDocumentsFrom(st, docs, i, size) ==
    IF i > Len(docs) THEN st
    ELSE LET doc == docs[i]
             got == IF doc.md = 0 THEN EmptyMetadata ELSE st.heap[doc.md]
             md == doc_metadata(got, i - 1)
             next == [all_chunks |-> st.all_chunks \o chunk_text(doc.text, md, size),
                      heap |-> IF doc.md = 0 THEN st.heap
                               ELSE [st.heap EXCEPT ![doc.md] = md]]
         IN  ChunkDocumentsFrom(next, docs, i + 1, size)

chunk_documents(docs, h, size) ==
    ChunkDocumentsFrom([all_chunks |-> <<>>, heap |-> h], docs, 1, size)

RECURSIVE Sum(_)
Sum(ns) == IF Len(ns) = 0 THEN 0 ELSE Head(ns) + Sum(Tail(ns))

MinOf(ns) == CHOOSE m \in {ns[i] : i \in 1..Len(ns)} : \A i \in 1..Len(ns) : m <= ns[i]
MaxOf(ns) == CHOOSE m \in {ns[i] : i \in 1..Len(ns)} : \A i \in 1..Len(ns) : m >= ns[i]

\* statistics that report every field, zero, for an empty list
get_chunk_stats_all_fields(cs) ==
    LET chunk_sizes == [i \in 1..Len(cs) |-> Len(cs[i].text)]
    IN  [k \in {"total_chunks", "avg_chunk_size", "min_chunk_size", "max_chunk_size",
                "total_characters"} |->
            CASE k = "total_chunks" -> Len(cs)
              [] k = "avg_chunk_size" ->
                    IF Len(cs) = 0 THEN <<0, 1>> ELSE <<Sum(chunk_sizes), Len(chunk_sizes)>>
              [] k = "min_chunk_size" -> IF Len(cs) = 0 THEN 0 ELSE MinOf(chunk_sizes)
              [] k = "max_chunk_size" -> IF Len(cs) = 0 THEN 0 ELSE MaxOf(chunk_sizes)
              [] OTHER -> Sum(chunk_sizes)]

\* get_chunk_stats; the quotient sum / len is kept exact, as <<sum, len>>
get_chunk_stats(cs) ==
    IF Len(cs) = 0 THEN [k \in {"total_chunks"} |-> 0]
    ELSE LET chunk_sizes == [i \in 1..Len(cs) |-> Len(cs[i].text)]
         IN  [k \in {"total_chunks", "avg_chunk_size", "min_chunk_size",
                     "max_chunk_size", "total_characters"} |->
                 CASE k = "total_chunks" -> Len(cs)
                   [] k = "avg_chunk_size" -> <<Sum(chunk_sizes), Len(chunk_sizes)>>
                   [] k = "min_chunk_size" -> MinOf(chunk_sizes)
                   [] k = "max_chunk_size" -> MaxOf(chunk_sizes)
                   [] OTHER -> Sum(chunk_sizes)]

ChunkerInit ==
    /\ documents = <<>>
    /\ heap = CallerHeap
    /\ all_chunks = <<>>
    /\ stats = EmptyMetadata
    /\ arg_chunk_size = None
    /\ arg_chunk_overlap = None
    /\ chunk_size = InitChunkSize(None)
    /\ chunk_overlap = InitChunkOverlap(None)
    /\ phase = "constructed"
    /\ text = <<>>
    /\ metadata = NoMetadata
    /\ chunks = <<>>

\* DocumentChunker(chunk_size=a, chunk_overlap=b).  Every configuration is
\* constructed from the default-constructed chunker; once an instance has
\* served a call the next instance explored is the default one of
\* process_uploaded_file (src/src/ui/app.py:92).  chunk_text reads nothing but
\* self.chunk_size, so successive instances and calls are independent.
Construct ==
    \E a \in SizeArgs, b \in OverlapArgs :
        /\ \/ phase = "constructed" /\ arg_chunk_size = None /\ arg_chunk_overlap = None
           \/ phase # "constructed" /\ a = None /\ b = None
        /\ arg_chunk_size' = a
        /\ arg_chunk_overlap' = b
        /\ chunk_size' = InitChunkSize(a)
        /\ chunk_overlap' = InitChunkOverlap(b)
        /\ phase' = "constructed"
        /\ text' = <<>>
        /\ metadata' = NoMetadata
        /\ chunks' = <<>>
        /\ documents' = <<>>
        /\ heap' = CallerHeap
        /\ all_chunks' = <<>>
        /\ stats' = EmptyMetadata
        /\ UNCHANGED <<rag_vars, store_vars>>

\* chunker.chunk_text(t, md)
ChunkText ==
    /\ phase = "constructed"
    /\ \E t \in Texts, md \in Metadatas :
        /\ phase' = "chunked"
        /\ text' = t
        /\ metadata' = md
        /\ chunks' = chunk_text(t, md, chunk_size)
        /\ UNCHANGED <<arg_chunk_size, arg_chunk_overlap, chunk_size, chunk_overlap>>
        /\ UNCHANGED <<documents, heap, all_chunks, stats>>
        /\ UNCHANGED <<rag_vars, store_vars>>

\* chunker.chunk_documents(docs)
ChunkDocuments ==
    /\ phase = "constructed"
    /\ \E docs \in DocumentLists :
        /\ phase' = "batched"
        /\ documents' = docs
        /\ heap' = chunk_documents(docs, heap, chunk_size).heap
        /\ all_chunks' = chunk_documents(docs, heap, chunk_size).all_chunks
        /\ UNCHANGED <<arg_chunk_size, arg_chunk_overlap, chunk_size, chunk_overlap>>
        /\ UNCHANGED <<text, metadata, chunks, stats>>
        /\ UNCHANGED <<rag_vars, store_vars>>

\* chunker.get_chunk_stats(chunks), on what chunk_text returned
\* (src/src/ui/app.py:97)
GetChunkStats ==
    /\ phase = "chunked"
    /\ phase' = "stats"
    /\ stats' = get_chunk_stats(chunks)
    /\ UNCHANGED <<arg_chunk_size, arg_chunk_overlap, chunk_size, chunk_overlap>>
    /\ UNCHANGED <<text, metadata, chunks, documents, heap, all_chunks>>
    /\ UNCHANGED <<rag_vars, store_vars>>

----------------------------------------------------------------------------
(* RAGPipeline.  A str is a sequence of tokens here: a literal of the source *)
(* is one token, a decimal number one token per digit.                      *)

Calls == 1..NumCalls

EmptyDict == [k \in {} |-> 0]

Digits == <<"0", "1", "2", "3", "4", "5", "6", "7", "8", "9">>

\* str(n) for n >= 0
RECURSIVE Str(_)
Str(n) == IF n < 10 THEN <<Digits[n + 1]>> ELSE Str(n \div 10) \o <<Digits[(n % 10) + 1]>>

\* sep.join(parts)
RECURSIVE Join(_, _)
Join(parts, sep) ==
    IF Len(parts) = 0 THEN <<>>
    ELSE IF Len(parts) = 1 THEN parts[1]
    ELSE parts[1] \o sep \o Join(Tail(parts), sep)

\* what the collection holds: the dicts VectorStore.search formats
Doc1 == [text |-> <<"alpha">>,
         metadata |-> [k \in {"filename"} |-> "a.pdf"],
         distance |-> 1,
         id |-> "chunk_0"]
Doc2 == [text |-> <<"beta", NL, NL, "gamma">>,
         metadata |-> [k \in {"filename"} |-> "b.pdf"],
         distance |-> 3,
         id |-> "chunk_1"]
Docs == {Doc1, Doc2}

\* the lists a search may return: best first, no chunk twice, at most top_k
ResultLists ==
    {rs \in SeqsUpTo(Docs, Min(top_k, Cardinality(Docs))) :
        \A i, j \in 1..Len(rs) : i # j => rs[i] # rs[j]}

Questions == {<<"what?">>, <<"why?">>}
Answers == {<<"yes">>, <<"see ", "[Document ", "1", "]">>}
\* str(e) of the exceptions a collaborator raises; Exception() has the empty one
Causes == {<<>>, <<"timed out">>}

\* f"[Document {i}]\n{result['text']}" with i counted from 0
context_part_from_zero(i, result) == <<"[Document ">> \o Str(i - 1) \o <<"]", NL>> \o result.text

\* f"[Document {i}]\n{result['text']}", i the 1-based position
context_part(i, result) == <<"[Document ">> \o Str(i) \o <<"]", NL>> \o result.text

\* retrieve_context, given what vector_store.search returned
retrieve_context(results) ==
    IF Len(results) = 0 THEN [sources |-> <<>>, context |-> <<>>]
    ELSE LET context_parts == [i \in 1..Len(results) |-> context_part(i, results[i])]
         IN  [sources |-> results, context |-> Join(context_parts, <<NL, NL>>)]

NoDocumentsAnswer ==
    <<"I don't have any documents to answer your question. Please upload documents first.">>

\* a fallback that also reports an error
no_documents_response_with_error ==
    [k \in {"answer", "sources", "context", "error"} |->
        CASE k = "answer" -> NoDocumentsAnswer
          [] k = "sources" -> <<>>
          [] k = "context" -> <<>>
          [] OTHER -> <<"no documents">>]

no_documents_response ==
    [k \in {"answer", "sources", "context"} |->
        CASE k = "answer" -> NoDocumentsAnswer
          [] k = "sources" -> <<>>
          [] OTHER -> <<>>]

Reverse(s) == [i \in 1..Len(s) |-> s[Len(s) + 1 - i]]

\* a response whose sources are re-ranked
success_response_reranked(answer, docs, context) ==
    [k \in {"answer", "sources", "context", "num_sources"} |->
        CASE k = "answer" -> answer
          [] k = "sources" -> Reverse(docs)
          [] k = "context" -> context
          [] OTHER -> Len(docs)]

success_response(answer, docs, context) ==
    [k \in {"answer", "sources", "context", "num_sources"} |->
        CASE k = "answer" -> answer
          [] k = "sources" -> docs
          [] k = "context" -> context
          [] OTHER -> Len(docs)]

\* the except branch of query; e is str(e)
error_response(e) ==
    [k \in {"answer", "sources", "error"} |->
        CASE k = "answer" -> <<"Error processing your question: ">> \o e
          [] k = "sources" -> <<>>
          [] OTHER -> e]

\* previous turns as the caller keeps them
Histories == {<<>>, <<[question |-> <<"why?">>, answer |-> <<"yes">>]>>}

\* RAGPipeline.__init__: what the instance holds
RAGPipeline == [top_k |-> top_k, model |-> "claude-3-5-sonnet-20241022"]

\* a question reformulated with the previous turns
history_question_reformulated(q, history) ==
    IF Len(history) = 0 THEN q ELSE history[Len(history)].question \o q

\* the question query_with_chat_history hands to query
history_question(q, history) == q

RagIdle ==
    /\ pipeline = RAGPipeline
    /\ search_text = [c \in Calls |-> <<>>]
    /\ pc = [c \in Calls |-> "idle"]
    /\ question = [c \in Calls |-> <<>>]
    /\ search_status = [c \in Calls |-> "none"]
    /\ gen_status = [c \in Calls |-> "none"]
    /\ searches = [c \in Calls |-> 0]
    /\ generations = [c \in Calls |-> 0]
    /\ retrieved = [c \in Calls |-> <<>>]
    /\ source_docs = [c \in Calls |-> <<>>]
    /\ prompt_context = [c \in Calls |-> <<>>]
    /\ generated = [c \in Calls |-> <<>>]
    /\ cause = [c \in Calls |-> <<>>]
    /\ response = [c \in Calls |-> EmptyDict]

\* query(q) is entered and calls retrieve_context, which calls
\* vector_store.search(q, top_k)
Query(c) ==
    \E q \in Questions :
        /\ pc[c] = "idle"
        /\ pc' = [pc EXCEPT ![c] = "retrieving"]
        /\ question' = [question EXCEPT ![c] = q]
        /\ search_text' = [search_text EXCEPT ![c] = q]
        /\ search_status' = [search_status EXCEPT ![c] = "pending"]
        /\ searches' = [searches EXCEPT ![c] = @ + 1]
        /\ UNCHANGED <<gen_status, generations, retrieved, source_docs, prompt_context,
                       generated, cause, response, pipeline>>
        /\ UNCHANGED <<chunker_vars, store_vars>>

\* query_with_chat_history(q, history) is entered and calls query with the
\* question alone, which runs as above
QueryWithChatHistory(c) ==
    \E q \in Questions, history \in Histories :
        /\ pc[c] = "idle"
        /\ pc' = [pc EXCEPT ![c] = "retrieving"]
        /\ question' = [question EXCEPT ![c] = q]
        /\ search_text' = [search_text EXCEPT ![c] = history_question(q, history)]
        /\ search_status' = [search_status EXCEPT ![c] = "pending"]
        /\ searches' = [searches EXCEPT ![c] = @ + 1]
        /\ UNCHANGED <<gen_status, generations, retrieved, source_docs, prompt_context,
                       generated, cause, response, pipeline>>
        /\ UNCHANGED <<chunker_vars, store_vars>>

\* a search that returns nothing, without the short-circuit: generate_answer is
\* called on the empty context
SearchReturnsNothingThenGenerates(c) ==
    /\ pc[c] = "retrieving"
    /\ search_status' = [search_status EXCEPT ![c] = "returned"]
    /\ retrieved' = [retrieved EXCEPT ![c] = <<>>]
    /\ source_docs' = [source_docs EXCEPT ![c] = <<>>]
    /\ prompt_context' = [prompt_context EXCEPT ![c] = <<>>]
    /\ gen_status' = [gen_status EXCEPT ![c] = "pending"]
    /\ generations' = [generations EXCEPT ![c] = @ + 1]
    /\ pc' = [pc EXCEPT ![c] = "generating"]
    /\ UNCHANGED <<question, searches, generated, cause, response>>
    /\ UNCHANGED <<pipeline, search_text>>
    /\ UNCHANGED <<chunker_vars, store_vars>>

\* search returns nothing: retrieve_context returns ([], "") and query returns
\* the fallback
SearchReturnsNothing(c) ==
    /\ pc[c] = "retrieving"
    /\ search_status' = [search_status EXCEPT ![c] = "returned"]
    /\ retrieved' = [retrieved EXCEPT ![c] = <<>>]
    /\ source_docs' = [source_docs EXCEPT ![c] = retrieve_context(<<>>).sources]
    /\ response' = [response EXCEPT ![c] = no_documents_response]
    /\ pc' = [pc EXCEPT ![c] = "done"]
    /\ UNCHANGED <<question, gen_status, searches, generations, prompt_context,
                   generated, cause>>
    /\ UNCHANGED <<pipeline, search_text>>
    /\ UNCHANGED <<chunker_vars, store_vars>>

\* search returns results: retrieve_context formats them and query calls
\* generate_answer, which calls client.messages.create
SearchReturns(c) ==
    \E rs \in ResultLists :
        /\ pc[c] = "retrieving"
        /\ Len(rs) > 0
        /\ search_status' = [search_status EXCEPT ![c] = "returned"]
        /\ retrieved' = [retrieved EXCEPT ![c] = rs]
        /\ source_docs' = [source_docs EXCEPT ![c] = retrieve_context(rs).sources]
        /\ prompt_context' = [prompt_context EXCEPT ![c] = retrieve_context(rs).context]
        /\ gen_status' = [gen_status EXCEPT ![c] = "pending"]
        /\ generations' = [generations EXCEPT ![c] = @ + 1]
        /\ pc' = [pc EXCEPT ![c] = "generating"]
        /\ UNCHANGED <<question, searches, generated, cause, response>>
        /\ UNCHANGED <<pipeline, search_text>>
        /\ UNCHANGED <<chunker_vars, store_vars>>

\* search raises: the except branch of query
SearchRaises(c) ==
    \E e \in Causes :
        /\ pc[c] = "retrieving"
        /\ search_status' = [search_status EXCEPT ![c] = "raised"]
        /\ cause' = [cause EXCEPT ![c] = e]
        /\ response' = [response EXCEPT ![c] = error_response(e)]
        /\ pc' = [pc EXCEPT ![c] = "done"]
        /\ UNCHANGED <<question, gen_status, searches, generations, retrieved,
                       source_docs, prompt_context, generated>>
        /\ UNCHANGED <<pipeline, search_text>>
        /\ UNCHANGED <<chunker_vars, store_vars>>

\* client.messages.create returns: generate_answer returns its text and query
\* formats the response
GenerateReturns(c) ==
    \E a \in Answers :
        /\ pc[c] = "generating"
        /\ gen_status' = [gen_status EXCEPT ![c] = "returned"]
        /\ generated' = [generated EXCEPT ![c] = a]
        /\ response' = [response EXCEPT
                           ![c] = success_response(a, source_docs[c], prompt_context[c])]
        /\ pc' = [pc EXCEPT ![c] = "done"]
        /\ UNCHANGED <<question, search_status, searches, generations, retrieved,
                       source_docs, prompt_context, cause>>
        /\ UNCHANGED <<pipeline, search_text>>
        /\ UNCHANGED <<chunker_vars, store_vars>>

\* client.messages.create raises: generate_answer re-raises, the except branch
\* of query
GenerateRaises(c) ==
    \E e \in Causes :
        /\ pc[c] = "generating"
        /\ gen_status' = [gen_status EXCEPT ![c] = "raised"]
        /\ cause' = [cause EXCEPT ![c] = e]
        /\ response' = [response EXCEPT ![c] = error_response(e)]
        /\ pc' = [pc EXCEPT ![c] = "done"]
        /\ UNCHANGED <<question, search_status, searches, generations, retrieved,
                       source_docs, prompt_context, generated>>
        /\ UNCHANGED <<pipeline, search_text>>
        /\ UNCHANGED <<chunker_vars, store_vars>>

\* the caller takes the response; the call's locals are gone
Return(c) ==
    /\ pc[c] = "done"
    /\ pc' = [pc EXCEPT ![c] = "idle"]
    /\ question' = [question EXCEPT ![c] = <<>>]
    /\ search_status' = [search_status EXCEPT ![c] = "none"]
    /\ gen_status' = [gen_status EXCEPT ![c] = "none"]
    /\ searches' = [searches EXCEPT ![c] = 0]
    /\ generations' = [generations EXCEPT ![c] = 0]
    /\ retrieved' = [retrieved EXCEPT ![c] = <<>>]
    /\ source_docs' = [source_docs EXCEPT ![c] = <<>>]
    /\ prompt_context' = [prompt_context EXCEPT ![c] = <<>>]
    /\ generated' = [generated EXCEPT ![c] = <<>>]
    /\ cause' = [cause EXCEPT ![c] = <<>>]
    /\ response' = [response EXCEPT ![c] = EmptyDict]
    /\ search_text' = [search_text EXCEPT ![c] = <<>>]
    /\ UNCHANGED pipeline
    /\ UNCHANGED <<chunker_vars, store_vars>>

----------------------------------------------------------------------------
(* VectorStore: add_documents and clear_collection on one collection *)

\* f"chunk_{i}"
chunk_id(i) == <<"chunk_">> \o Str(i)

\* a metadata value: a scalar is stored as it is, anything else as its str()
Scalar(v) == [scalar |-> TRUE, v |-> v]
Pages == [scalar |-> FALSE, v |-> <<"[", "1", ", ", "2", "]">>]
metadata_value(value) == IF value.scalar THEN value ELSE Scalar(value.v)

\* the chunks handed to add_documents
StoreChunks ==
    {[text |-> <<"alpha">>, metadata |-> [k \in {"filename"} |-> Scalar("a.pdf")]],
     [text |-> <<"beta">>,
      metadata |-> [k \in {"filename", "pages"} |->
                        IF k = "filename" THEN Scalar("b.pdf") ELSE Pages]]}
StoreBatches == SeqsUpTo(StoreChunks, MaxBatch)

EmptyCollection == [id \in {} |-> 0]

\* ids, documents and metadatas of one add_documents call
add_ids(cs) == [i \in 1..Len(cs) |-> chunk_id(i - 1)]
add_documents_record(chunk) ==
    [document |-> chunk.text,
     metadata |-> [k \in DOMAIN chunk.metadata |-> metadata_value(chunk.metadata[k])]]

Range(f) == {f[x] : x \in DOMAIN f}

\* collection.add(ids, documents, metadatas) returning: a record whose id the
\* collection already holds is left as it is
collection_add(coll, cs) ==
    LET ids == add_ids(cs)
        first(id) == CHOOSE i \in 1..Len(cs) : ids[i] = id
    IN  [id \in DOMAIN coll \cup Range(ids) |->
            IF id \in DOMAIN coll THEN coll[id] ELSE add_documents_record(cs[first(id)])]

StoreInit ==
    /\ collection = EmptyCollection
    /\ adds = <<>>

\* add_documents(chunks) returns: 0 for no chunks, else len(chunks) after
\* collection.add
AddDocuments ==
    /\ Len(adds) < MaxAdds
    /\ \E cs \in StoreBatches :
        LET after == IF Len(cs) = 0 THEN collection ELSE collection_add(collection, cs)
        IN  /\ collection' = after
            /\ adds' = Append(adds,
                   [ids |-> IF Len(cs) = 0 THEN <<>> ELSE add_ids(cs),
                    raised |-> FALSE,
                    returned |-> Len(cs),
                    stored |-> Cardinality(DOMAIN after) - Cardinality(DOMAIN collection)])
    /\ UNCHANGED <<chunker_vars, rag_vars>>

\* collection.add raises (an id already held, in the versions of the library
\* that refuse it, or the embedding failing): add_documents logs and re-raises
AddDocumentsRaises ==
    /\ Len(adds) < MaxAdds
    /\ \E cs \in StoreBatches :
        /\ Len(cs) > 0
        /\ adds' = Append(adds, [ids |-> add_ids(cs), raised |-> TRUE,
                                 returned |-> 0, stored |-> 0])
    /\ UNCHANGED collection
    /\ UNCHANGED <<chunker_vars, rag_vars>>

\* clear_collection: the collection is deleted and created again
ClearCollection ==
    /\ Len(adds) > 0
    /\ collection' = EmptyCollection
    /\ adds' = <<>>
    /\ UNCHANGED <<chunker_vars, rag_vars>>

Init == ChunkerInit /\ RagIdle /\ StoreInit

ChunkerNext == Construct \/ ChunkText \/ ChunkDocuments \/ GetChunkStats

RagNext ==
    \E c \in Calls :
        \/ Query(c)
        \/ QueryWithChatHistory(c)
        \/ SearchReturnsNothing(c)
        \/ SearchReturns(c)
        \/ SearchRaises(c)
        \/ GenerateReturns(c)
        \/ GenerateRaises(c)
        \/ Return(c)

Spec == Init /\ [][ChunkerNext]_vars

StoreNext == AddDocuments \/ AddDocumentsRaises \/ ClearCollection

SpecRag == Init /\ [][RagNext]_vars

SpecStore == Init /\ [][StoreNext]_vars

\* every collaborator call returns or raises
CollaboratorsAnswer ==
    \A c \in Calls :
        /\ WF_vars(SearchReturnsNothing(c) \/ SearchReturns(c) \/ SearchRaises(c))
        /\ WF_vars(GenerateReturns(c) \/ GenerateRaises(c))

SpecRagFair == Init /\ [][RagNext]_vars /\ CollaboratorsAnswer

----------------------------------------------------------------------------
(* Properties of the chunker *)

ChunkTexts == [i \in 1..Len(chunks) |-> chunks[i].text]

AllSpace(s) == \A i \in 1..Len(s) : s[i] \in Whitespace

IsPrefix(p, s) == Len(p) <= Len(s) /\ SubSeq(s, 1, Len(p)) = p

\* t is cs[1], cs[2], ... in order, with nothing but whitespace before, between
\* and after them
RECURSIVE Covers(_, _)
Covers(t, cs) ==
    IF Len(cs) = 0 THEN AllSpace(t)
    ELSE \E k \in 0..Len(t) :
            /\ AllSpace(SubSeq(t, 1, k))
            /\ IsPrefix(Head(cs), SubSeq(t, k + 1, Len(t)))
            /\ Covers(SubSeq(t, k + 1 + Len(Head(cs)), Len(t)), Tail(cs))

\* the chunk texts with the configured overlap region cut from the start of
\* every chunk after the first
Cores(cs, overlap) ==
    [i \in 1..Len(cs) |->
        IF i = 1 THEN cs[i]
        ELSE SubSeq(cs[i], Min(Len(cs[i]), Min(overlap, Len(cs[i - 1]))) + 1, Len(cs[i]))]

ValidConfig == chunk_size > 0 /\ 0 <= chunk_overlap /\ chunk_overlap < chunk_size

\* C1: the chunks returned by chunk_text, taken in order (with or without the
\* overlap regions cut), reconstruct the input text up to whitespace at chunk
\* boundaries: nothing else is lost, duplicated or moved.
C1_Coverage ==
    (phase = "chunked" /\ ValidConfig) =>
        \/ Covers(text, ChunkTexts)
        \/ Covers(text, Cores(ChunkTexts, chunk_overlap))

\* the spans of t left when it is cut at every separator
RECURSIVE CutAll(_, _)
CutAll(pieces, seps) ==
    IF Len(seps) = 0 \/ Len(Head(seps)) = 0 THEN pieces
    ELSE CutAll(Flatten([k \in 1..Len(pieces) |-> Split(pieces[k], Head(seps))]), Tail(seps))

AtomicUnits(t) ==
    LET units == CutAll(<<t>>, separators) IN {units[k] : k \in 1..Len(units)}

\* C2: with chunk_size >= 1 every chunk is at most chunk_size long, unless it
\* is exactly one atomic unit of the text (a span holding no separator) that
\* is itself longer than chunk_size.
C2_SizeBound ==
    (phase = "chunked" /\ chunk_size >= 1) =>
        \A i \in 1..Len(chunks) :
            \/ Len(chunks[i].text) <= chunk_size
            \/ chunks[i].text \in AtomicUnits(text)

\* C3: every chunk after the first starts with the last
\* min(chunk_overlap, size(previous chunk)) characters of the previous chunk.
C3_OverlapBound ==
    (phase = "chunked" /\ ValidConfig) =>
        \A i \in 2..Len(chunks) :
            LET prev == chunks[i - 1].text
                cur == chunks[i].text
                n == Min(chunk_overlap, Len(prev))
            IN  /\ Len(cur) >= n
                /\ SubSeq(cur, 1, n) = SubSeq(prev, Len(prev) - n + 1, Len(prev))

\* C6: a text that is not whitespace-only and is no longer than chunk_size
\* comes back as exactly one chunk, the text with surrounding whitespace
\* trimmed.
C6_ShortInputOneChunk ==
    (phase = "chunked" /\ Len(Strip(text)) > 0 /\ Len(text) <= chunk_size) =>
        /\ Len(chunks) = 1
        /\ chunks[1].text = Strip(text)

ReservedKeys == {"chunk_index", "total_chunks", "chunk_size"}

PositionalMetadata ==
    \A i \in 1..Len(chunks) :
        /\ ReservedKeys \subseteq DOMAIN chunks[i].metadata
        /\ chunks[i].metadata["chunk_index"] = i - 1
        /\ chunks[i].metadata["total_chunks"] = Len(chunks)
        /\ chunks[i].metadata["chunk_size"] = Len(chunks[i].text)

CallerKeysKept(keys) ==
    \A i \in 1..Len(chunks) :
        \A k \in keys :
            k \in DOMAIN chunks[i].metadata /\ chunks[i].metadata[k] = metadata[k]

\* C7 as stated: the i-th chunk has chunk_index = i, total_chunks = n,
\* chunk_size = len(text), and every caller-supplied key/value is present
\* unchanged.
C7_MetadataAllCallerKeys ==
    phase = "chunked" => (PositionalMetadata /\ CallerKeysKept(DOMAIN metadata))

\* C7 as amended: the i-th chunk has chunk_index = i, total_chunks = n,
\* chunk_size = len(text), and every caller-supplied key other than
\* chunk_index, total_chunks and chunk_size is present unchanged (those three
\* are overwritten by the chunk's own values).
C7_MetadataAssigned ==
    phase = "chunked" =>
        (PositionalMetadata /\ CallerKeysKept(DOMAIN metadata \ ReservedKeys))

\* a call that returned several chunks for a caller who passed its own keys
C7_Witness ==
    /\ phase = "chunked"
    /\ Len(chunks) >= 2
    /\ "filename" \in DOMAIN metadata
    /\ chunks[2].metadata["filename"] = "test.pdf"

\* C10: no DocumentChunker exists with chunk_size <= 0 or with
\* chunk_overlap >= chunk_size: such a construction fails.
C10_ConfigValidated == chunk_size > 0 /\ chunk_overlap < chunk_size

----------------------------------------------------------------------------
(* Properties of the pipeline *)

Done(c) == pc[c] = "done"

Failed(c) == search_status[c] = "raised" \/ gen_status[c] = "raised"

\* s occurs in t as a contiguous run
Embeds(t, s) == \E k \in 0..(Len(t) - Len(s)) : SubSeq(t, k + 1, k + Len(s)) = s

\* C4: when a collaborator raised, query returned a response with empty
\* sources, a non-empty error and an answer that embeds the failure cause.
C4_FailureDegradation ==
    \A c \in Calls :
        (Done(c) /\ Failed(c)) =>
            /\ {"answer", "sources", "error"} \subseteq DOMAIN response[c]
            /\ response[c]["sources"] = <<>>
            /\ Len(response[c]["error"]) > 0
            /\ Len(response[c]["answer"]) > 0
            /\ Embeds(response[c]["answer"], cause[c])

\* C5: when the search returned the empty sequence, query returned the fixed
\* no-documents answer, sources = [], context = "" and no error field,
\* whatever the question.
C5_NoResultsFallback ==
    \A c \in Calls :
        (Done(c) /\ search_status[c] = "returned" /\ Len(retrieved[c]) = 0) =>
            /\ {"answer", "sources", "context"} \subseteq DOMAIN response[c]
            /\ response[c]["answer"] = NoDocumentsAnswer
            /\ response[c]["sources"] = <<>>
            /\ response[c]["context"] = <<>>
            /\ "error" \notin DOMAIN response[c]
            /\ generations[c] = 0

\* both questions met an empty collection
C5_Witness ==
    /\ \A c \in Calls : Done(c) /\ search_status[c] = "returned" /\ Len(retrieved[c]) = 0
    /\ question[1] # question[2]

\* the context string read back: cut at every "[Document " marker, piece k + 1
\* holds the decimal marker, "]", a newline and the section's text, every
\* section but the last followed by the blank line that joins them
SectionsOf(context) == Split(context, <<"[Document ">>)

IsSection(piece, i, result, last) ==
    piece = Str(i) \o <<"]", NL>> \o result.text \o (IF last THEN <<>> ELSE <<NL, NL>>)

\* C8: when the search returned n >= 1 results, retrieve_context returns those
\* n results as sources and a context of exactly n sections, the i-th tagged i
\* and holding the text of the i-th result, in the returned order.
C8_ContextFormatting ==
    \A c \in Calls :
        (search_status[c] = "returned" /\ Len(retrieved[c]) >= 1) =>
            LET n == Len(retrieved[c])
                pieces == SectionsOf(prompt_context[c])
            IN  /\ source_docs[c] = retrieved[c]
                /\ Len(pieces) = n + 1
                /\ pieces[1] = <<>>
                /\ \A i \in 1..n : IsSection(pieces[i + 1], i, retrieved[c][i], i = n)

\* a search that returned two results, the multi-paragraph one first
C8_Witness ==
    \E c \in Calls :
        /\ search_status[c] = "returned"
        /\ retrieved[c] = <<Doc2, Doc1>>
        /\ Len(prompt_context[c]) > 0

Answered(c) ==
    Done(c) /\ search_status[c] = "returned" /\ Len(retrieved[c]) >= 1
            /\ gen_status[c] = "returned"

\* the i-th source carries, beside what the search returned, its position
Annotated(src, result, i) ==
    \E k \in DOMAIN src \ DOMAIN result : src[k] = i

SuccessBundle(c) ==
    /\ {"answer", "sources", "context"} \subseteq DOMAIN response[c]
    /\ response[c]["answer"] = generated[c]
    /\ Len(response[c]["sources"]) = Len(retrieved[c])
    /\ \A i \in 1..Len(retrieved[c]) :
        /\ response[c]["sources"][i].distance = retrieved[c][i].distance
        /\ response[c]["sources"][i].metadata = retrieved[c][i].metadata
        /\ response[c]["sources"][i].text = retrieved[c][i].text
        /\ response[c]["sources"][i].id = retrieved[c][i].id
    /\ response[c]["context"] = prompt_context[c]
    /\ "error" \notin DOMAIN response[c]

\* C9 as stated: on success the answer is the generated text, the sources are
\* the retrieval list in order, each annotated with its position marker, score
\* and metadata unmodified, the context is the string passed to generation,
\* and there is no error.
C9_SuccessAnnotatedSources ==
    \A c \in Calls :
        Answered(c) =>
            /\ SuccessBundle(c)
            /\ \A i \in 1..Len(retrieved[c]) :
                Annotated(response[c]["sources"][i], retrieved[c][i], i)

\* C9 as amended: on success the answer is the generated text verbatim, the
\* sources are exactly the dicts the search returned, in the same order and
\* unmodified (a source's position is its place in the list: no marker is
\* added to it), the context is the string passed to generation, and there is
\* no error.
C9_SuccessResponse ==
    \A c \in Calls :
        Answered(c) => (SuccessBundle(c) /\ response[c]["sources"] = retrieved[c])

\* an answered query over two results
C9_Witness ==
    \E c \in Calls :
        /\ Answered(c)
        /\ Len(retrieved[c]) = 2
        /\ Len(generated[c]) > 1

----------------------------------------------------------------------------
(* Properties of chunk_documents, get_chunk_stats and the configuration *)

\* C11: the chunker never mutates its input: after chunk_documents returns,
\* every metadata mapping of the caller is what it was before the call
\* (chunk_text works on metadata.copy() and leaves its argument alone).
C11_InputsNotMutated == phase = "batched" => heap = CallerHeap

\* the chunks of document number i (1-based) segmented on its own, from the
\* metadata the caller passed, each carrying the document's position
ExpectedDocChunks(i) ==
    LET doc == documents[i]
        own == IF doc.md = 0 THEN EmptyMetadata ELSE CallerHeap[doc.md]
        alone == chunk_text(doc.text, own, chunk_size)
    IN  [j \in 1..Len(alone) |->
            [text |-> alone[j].text,
             metadata |-> Update(alone[j].metadata,
                                 [k \in {"document_index"} |-> i - 1])]]

\* C12: chunk_documents returns, in input order, the chunks of each document
\* segmented independently; every chunk carries document_index = the position
\* of its document, also when documents share one metadata mapping or have
\* none; chunk_index and total_chunks are relative to the chunk's own
\* document; a whitespace-only document contributes no chunk.
C12_BatchSegmentation ==
    phase = "batched" =>
        /\ all_chunks = Flatten([i \in 1..Len(documents) |-> ExpectedDocChunks(i)])
        /\ \A j \in 1..Len(all_chunks) :
            LET m == all_chunks[j].metadata
            IN  /\ m["document_index"] \in 0..(Len(documents) - 1)
                /\ ~AllSpace(documents[m["document_index"] + 1].text)
                /\ m["chunk_index"] < m["total_chunks"]
                /\ m["total_chunks"] = Len(ExpectedDocChunks(m["document_index"] + 1))

\* two documents sharing one metadata mapping, both split into chunks
C12_Witness ==
    /\ phase = "batched"
    /\ Len(documents) = 2
    /\ documents[1].md = 1
    /\ documents[2].md = 1
    /\ Len(all_chunks) >= 3
    /\ all_chunks[1].metadata["document_index"] = 0
    /\ all_chunks[Len(all_chunks)].metadata["document_index"] = 1

\* C13: chunk_text on the empty string or on whitespace-only text returns the
\* empty list, and get_chunk_stats on an empty list returns exactly
\* {total_chunks: 0}.
C13_EmptyInput ==
    /\ (phase \in {"chunked", "stats"} /\ AllSpace(text)) => chunks = <<>>
    /\ (phase = "stats" /\ Len(chunks) = 0) =>
            (DOMAIN stats = {"total_chunks"} /\ stats["total_chunks"] = 0)

\* statistics were taken of what chunk_text returned for whitespace-only text
C13_Witness ==
    /\ phase = "stats"
    /\ text = <<" ", NL>>
    /\ chunks = <<>>
    /\ "total_chunks" \in DOMAIN stats

\* C16: a chunker constructed with an explicit chunk_size > 0 and an explicit
\* chunk_overlap with 0 <= chunk_overlap < chunk_size holds exactly those two
\* values.
C16_ConfigRetained ==
    (/\ arg_chunk_size.given
     /\ arg_chunk_overlap.given
     /\ arg_chunk_size.val > 0
     /\ 0 <= arg_chunk_overlap.val
     /\ arg_chunk_overlap.val < arg_chunk_size.val) =>
        (chunk_size = arg_chunk_size.val /\ chunk_overlap = arg_chunk_overlap.val)

\* C18: with chunk_size >= 1 no chunk returned by chunk_text has empty text.
C18_NoEmptyChunk ==
    (phase = "chunked" /\ chunk_size >= 1) =>
        \A i \in 1..Len(chunks) : Len(chunks[i].text) > 0

----------------------------------------------------------------------------
(* Properties of the query calls of one pipeline *)

\* C14: every response query returns, in each of its three outcomes, carries
\* the fields answer, sources and context, and carries the field error if and
\* only if the outcome is degraded.
C14_ResponseShape ==
    \A c \in Calls :
        Done(c) =>
            /\ {"answer", "sources", "context"} \subseteq DOMAIN response[c]
            /\ ("error" \in DOMAIN response[c]) <=> Failed(c)

\* everything call c holds: its arguments, its locals and its response
LocalsOf(c) ==
    <<pc[c], question[c], search_text[c], search_status[c],
      gen_status[c], searches[c], generations[c], retrieved[c], source_docs[c],
      prompt_context[c], generated[c], cause[c], response[c]>>

\* the response, from what the collaborators answered to this call alone
OwnResponse(c) ==
    IF Failed(c) THEN error_response(cause[c])
    ELSE IF Len(retrieved[c]) = 0 THEN no_documents_response
    ELSE success_response(generated[c], retrieved[c],
                          retrieve_context(retrieved[c]).context)

\* C15: a query call never writes the pipeline instance; every step is the
\* step of one call, and leaves everything of every other call as it was, in
\* whatever order the calls interleave; the search receives the call's own
\* question, whatever the chat history; and the response is determined by the
\* collaborators' answers to the call's own retrieval and generation.
C15_QueryIndependence ==
    /\ [](\A c \in Calls :
            /\ pipeline = RAGPipeline
            /\ search_text[c] = question[c]
            /\ Done(c) => response[c] = OwnResponse(c))
    /\ [][/\ pipeline' = pipeline
          /\ \E d \in Calls :
                /\ pc'[d] # pc[d]
                /\ \A c \in Calls \ {d} : LocalsOf(c)' = LocalsOf(c)]_vars

\* two finished calls with the same question, a question other than the one
\* of the previous turns, and different responses
C15_Witness ==
    \E c, d \in Calls :
        /\ c # d
        /\ Done(c)
        /\ Done(d)
        /\ question[c] = question[d]
        /\ \A history \in Histories :
                \A i \in 1..Len(history) : history[i].question # question[c]
        /\ search_text[c] = question[c]
        /\ response[c] # response[d]

\* the transitions of the state machine as the specification lists them
ListedTransition(c) ==
    \/ pc[c] = "idle" /\ pc'[c] = "retrieving"
    \/ /\ pc[c] = "retrieving"
       /\ pc'[c] = "done"
       /\ search_status'[c] = "returned"
       /\ Len(retrieved'[c]) = 0
    \/ /\ pc[c] = "retrieving"
       /\ pc'[c] = "generating"
       /\ search_status'[c] = "returned"
       /\ Len(retrieved'[c]) > 0
    \/ pc[c] = "generating" /\ pc'[c] = "done" /\ gen_status'[c] = "returned"
    \/ pc[c] = "generating" /\ pc'[c] = "done" /\ gen_status'[c] = "raised"
    \/ pc[c] = "done" /\ pc'[c] = "idle"

\* retrieval failed: the call ends degraded, generation is never reached
RetrievalFailedTransition(c) ==
    /\ pc[c] = "retrieving"
    /\ pc'[c] = "done"
    /\ search_status'[c] = "raised"
    /\ generations'[c] = 0

\* the search is invoked exactly once and before any generation; generation is
\* invoked at most once and only after a non-empty result
CollaboratorCalls(c) ==
    /\ searches[c] = (IF pc[c] = "idle" THEN 0 ELSE 1)
    /\ generations[c] \in {0, 1}
    /\ generations[c] = 1 <=> gen_status[c] # "none"
    /\ generations[c] = 1 =>
            (searches[c] = 1 /\ search_status[c] = "returned" /\ Len(retrieved[c]) > 0)

\* C17 as stated: every query call follows only the transitions Idle ->
\* Retrieving -> {NoResults -> Done | ResultsFound -> Generating -> {Answered
\* -> Done | GenerationFailed -> Done(degraded)}}.
C17_ListedTransitionsOnly ==
    [][\A c \in Calls : pc'[c] # pc[c] => ListedTransition(c)]_vars

\* a call that was entered and has not yet its response
InProgress(c) == pc[c] \in {"retrieving", "generating"}

\* C17 as amended: every query call follows only the listed transitions or
\* Retrieving -> RetrievalFailed -> Done(degraded); the search is invoked
\* exactly once and before any generation, generation at most once and only
\* after a non-empty result; and, every collaborator call returning or
\* raising, no call stays in progress for ever: the only way out of
\* Retrieving and Generating being the transitions above, every call that was
\* entered reaches Done.
C17_StateMachine ==
    /\ [][\A c \in Calls :
            pc'[c] # pc[c] => (ListedTransition(c) \/ RetrievalFailedTransition(c))]_vars
    /\ [](\A c \in Calls : CollaboratorCalls(c))
    /\ \A c \in Calls : []<>(~InProgress(c))

\* one call ended by a failed retrieval, another answered after generation
C17_Witness ==
    \E c, d \in Calls :
        /\ Done(c)
        /\ search_status[c] = "raised"
        /\ generations[c] = 0
        /\ Answered(d)
        /\ generations[d] = 1

----------------------------------------------------------------------------
(* Properties of the vector store *)

\* C19: over the add_documents calls made with no clear_collection between
\* them, every chunk is submitted under an id that no earlier call submitted,
\* and every call returns the number of chunks it newly stored.
C19_AppendOnly ==
    /\ \A i, j \in 1..Len(adds) :
            i < j => Range(adds[i].ids) \cap Range(adds[j].ids) = {}
    /\ \A i \in 1..Len(adds) :
            ~adds[i].raised => adds[i].returned = adds[i].stored

====
